---- MODULE Spec2Model ----
(***************************************************************************)
(* Model of the tezos-delegation-service: the delegation store             *)
(* (BulkInsert / GetLastSeen over the delegations table), the poller       *)
(* (Run / syncOnce) and the part of main that starts and cancels it.       *)
(*                                                                         *)
(* Time is abstract: timestamp 0 is Go's zero time / SQL '0001-01-01',     *)
(* timestamps 1..MaxTs are instants of real events, durations are whole    *)
(* seconds.                                                                *)
(***************************************************************************)
EXTENDS Integers, Sequences, FiniteSets, TLC

\* ------------------------------------------------------------------ bounds
MaxTzktID == 2
MaxTs == 3
MaxLevel == 2
MaxBatch == 2
MaxFails == 5
MaxFaults == 2
\* Values of the BIGSERIAL sequence the model hands out: one more than there
\* are upstream identifiers, so that a rolled-back insert leaves a gap.
MaxSerial == MaxTzktID + 1

\* ------------------------------------------------------- program constants
\* COALESCE(MAX(timestamp), '0001-01-01') and time.Time{}: the zero time.
ZeroTime == 0
\* COALESCE(MAX(level), 0)
ZeroLevel == 0
\* GenesisStart: time.Date(2018, 6, 30, ...), an instant strictly after ZeroTime
\* with one real instant (1) before it.
GenesisStart == 2
DefaultBatchSize == 10000
DefaultPollInterval == 15
DefaultMaxBackoff == 120
\* MaxBackoff as main sets it: 2 * time.Minute.
MainMaxBackoff == 120

\* The callers of BulkInsert: the poller, and two clients that use the store
\* directly and concurrently (a second instance of the service on the same
\* database, or the store's own tests).
Poller == "poller"
Clients == {"c1", "c2"}
Callers == {Poller} \cup Clients

Addresses == {"", "tz1abc"}
Amounts == {100}

VARIABLES
    rows,       \* the committed rows of table delegations
    nextId,     \* next value of the BIGSERIAL sequence behind delegations.id
    txpc,       \* per caller: where its BulkInsert call stands
    batch,      \* per caller: the rows argument of its BulkInsert call
    idx,        \* per caller: index of the next row of the batch to insert
    pending,    \* per caller: rows inserted by its open transaction
    result,     \* per caller: what its last BulkInsert call returned
    repeat,     \* per caller: "first" when the caller will write the batch of this call
                \* again, "second" when this call is that second write, else "no"
    pc,         \* the poller goroutine's position in Run / syncOnce
    cfg,        \* Poller.cfg after NewPoller
    backoff,    \* Run's local variable backoff
    lastTs,     \* syncOnce's local variable lastTs (the since handed to the client)
    wmRead,     \* the timestamp GetLastSeen returned to syncOnce
    resp,       \* the events FetchDelegations returned, until the write begins
    fetched,    \* number of events the last fetch returned
    n,          \* the count syncOnce returned
    slept,      \* duration of the sleep the poller is in or took last
    fails,      \* number of consecutive failed iterations
    lastErr,    \* which call of syncOnce failed last
    failsBefore, \* number of consecutive failed iterations before the last successful one
    cancelled,  \* gCtx is done
    cancelCause, \* what cancelled gCtx
    cancelAt,   \* the poller's position when gCtx was cancelled
    backoffAtCancel, \* the value of backoff when gCtx was cancelled
    lateOp,     \* the poller issued a store or upstream call after a cancellation that found it asleep
    runResult,  \* what Run returned: "none" while running, then "nil" or "err"
    fetchCall,  \* the locals of the upstream client's FetchDelegations call
    apiCall,    \* the last request to /xtz/delegations and what the handler made of it
    timeZone,   \* the TimeZone setting of the database sessions
    proc,       \* the process: its restarts, main's server and shutdown tasks, its exit
    upstream    \* the events the upstream API holds

storeVars == <<rows, nextId, txpc, batch, idx, pending, result, repeat>>
cancelVars == <<cancelled, cancelCause, cancelAt, backoffAtCancel>>
pollerVars == <<pc, cfg, backoff, lastTs, wmRead, resp, fetched, n, slept, fails, lastErr, failsBefore,
                cancelled, cancelCause, cancelAt, backoffAtCancel, lateOp, runResult>>
vars == <<rows, nextId, txpc, batch, idx, pending, result, repeat,
          pc, cfg, backoff, lastTs, wmRead, resp, fetched, n, slept, fails, lastErr, failsBefore,
          cancelled, cancelCause, cancelAt, backoffAtCancel, lateOp, runResult,
          fetchCall, apiCall, timeZone, proc, upstream>>
\* What neither a BulkInsert call nor a step of Run changes.
callVars == <<fetchCall, apiCall, timeZone, proc, upstream>>

\* ------------------------------------------------------------------- data
Min(a, b) == IF a < b THEN a ELSE b
Max(a, b) == IF a > b THEN a ELSE b

RECURSIVE Pow2(_)
Pow2(k) == IF k <= 0 THEN 1 ELSE 2 * Pow2(k - 1)

\* The calendar year of an instant in UTC, as Timestamp.UTC() shows it:
\* instants are half-years, 1 and 2 lie in 2018. An odd instant is 00:00 UTC
\* on January 1st of its year.
YearOf(ts) == IF ts = ZeroTime THEN 1 ELSE 2018 + ((ts - 1) \div 2)

\* The TimeZone a database session may run under: nothing in the DSN or the
\* code sets it, so it is the server's; "west" is a zone behind UTC.
TimeZones == {"UTC", "west"}

\* EXTRACT(YEAR FROM ts::TIMESTAMPTZ) takes the year in the session's time
\* zone: behind UTC, 00:00 UTC on January 1st is still in the year before
\* (and the zero time in 1 BC, year -1).
YearIn(zone, ts) ==
    IF zone = "UTC" THEN YearOf(ts)
    ELSE IF ts = ZeroTime THEN -1
    ELSE IF ts % 2 = 1 THEN YearOf(ts) - 1
    ELSE YearOf(ts)

\* store.InsertDelegation: BulkInsert takes any value of the struct, the zero
\* time and level 0 included.
InsertDelegation == [TzktID : 1..MaxTzktID, Timestamp : ZeroTime..MaxTs, Amount : Amounts,
                     Delegator : Addresses, Level : ZeroLevel..MaxLevel]

\* tzkt.Delegation as decoded from the upstream response: a field the JSON
\* lacks keeps its zero value.
Delegation == [ID : 1..MaxTzktID, Level : ZeroLevel..MaxLevel, Timestamp : ZeroTime..MaxTs,
               Amount : Amounts, Address : Addresses]

SeqsUpTo(S, k) == UNION {[1..m -> S] : m \in 0..k}

\* The row the INSERT statement builds from one InsertDelegation.
NewRow(r, id) ==
    [id |-> id, tzkt_id |-> r.TzktID, timestamp |-> r.Timestamp, amount |-> r.Amount,
     delegator |-> r.Delegator, level |-> r.Level, year |-> YearIn(timeZone, r.Timestamp)]

TzktIDs(rs) == {r.tzkt_id : r \in rs}

\* ----------------------------------------------------------- GetLastSeen
NULL == -1

\* SQL MAX over a column: NULL over no rows.
RECURSIVE SqlMax(_)
SqlMax(S) ==
    IF S = {} THEN NULL
    ELSE LET x == CHOOSE y \in S : TRUE
             m == SqlMax(S \ {x})
         IN  IF m = NULL \/ x > m THEN x ELSE m

Coalesce(v, d) == IF v = NULL THEN d ELSE v

\* Faulty variant: MIN where the query has MAX.
GetLastSeen_Min(rs) ==
    LET SqlMin(S) == IF S = {} THEN NULL ELSE CHOOSE x \in S : \A y \in S : x <= y
    IN  [ts  |-> Coalesce(SqlMin({r.timestamp : r \in rs}), ZeroTime),
         lvl |-> Coalesce(SqlMin({r.level : r \in rs}), ZeroLevel)]

\* SELECT COALESCE(MAX(timestamp), '0001-01-01'), COALESCE(MAX(level), 0)
GetLastSeen(rs) ==
    [ts  |-> Coalesce(SqlMax({r.timestamp : r \in rs}), ZeroTime),
     lvl |-> Coalesce(SqlMax({r.level : r \in rs}), ZeroLevel)]

\* ------------------------------------------------------------ BulkInsert
\* ctx of the call is done: only the poller's calls run under gCtx.
CtxDone(w) == w = Poller /\ cancelled

\* The rows an INSERT of caller w sees: committed ones and its own.
Visible(w) == rows \cup pending[w]

\* Faulty variant: a table without the unique index finds no row.
HoldsTzktID_NoIndex(rs, r) == FALSE

\* tzkt_id BIGINT NOT NULL UNIQUE: the unique index finds a row with r's tzkt_id.
HoldsTzktID(rs, r) == r.TzktID \in TzktIDs(rs)

\* ON CONFLICT (tzkt_id): the arbiter index finds a row the statement can see.
Conflicts(w, r) == HoldsTzktID(Visible(w), r)

\* The unique index makes an INSERT wait while another open transaction holds
\* an uncommitted row with the same tzkt_id.
MustWait(w, r) ==
    \E o \in Callers \ {w} : HoldsTzktID(pending[o], r)

\* Faulty variant: BulkInsert without the check for an empty slice.
EmptyBatch_Never(b) == FALSE

\* if len(rows) == 0 { return nil }
EmptyBatch(b) == Len(b) = 0

\* A caller starts BulkInsert(rows). len(rows) == 0 returns nil at once.
StartCall(w, b, again) ==
    /\ batch' = [batch EXCEPT ![w] = b]
    /\ repeat' = [repeat EXCEPT ![w] = again]
    /\ idx' = [idx EXCEPT ![w] = 1]
    /\ pending' = [pending EXCEPT ![w] = {}]
    /\ IF EmptyBatch(b)
       THEN /\ txpc' = [txpc EXCEPT ![w] = "done"]
            /\ result' = [result EXCEPT ![w] = "ok"]
       ELSE /\ txpc' = [txpc EXCEPT ![w] = "begin"]
            /\ result' = [result EXCEPT ![w] = "none"]
    /\ UNCHANGED <<rows, nextId>>

\* s.db.BeginTx succeeds.
BeginTx(w) ==
    /\ txpc[w] = "begin"
    /\ ~CtxDone(w)
    /\ txpc' = [txpc EXCEPT ![w] = "prepare"]
    /\ UNCHANGED <<rows, nextId, batch, idx, pending, result, repeat>>

\* tx.PrepareContext succeeds.
PrepareContext(w) ==
    /\ txpc[w] = "prepare"
    /\ ~CtxDone(w)
    /\ txpc' = [txpc EXCEPT ![w] = "exec"]
    /\ UNCHANGED <<rows, nextId, batch, idx, pending, result, repeat>>

\* Faulty variant: a plain INSERT raises a unique violation where
\* ON CONFLICT DO NOTHING skips.
InsertOutcome_Plain(w, r) ==
    IF Conflicts(w, r) THEN "unique_violation"
    ELSE IF MustWait(w, r) THEN "wait" ELSE "insert"

\* INSERT INTO delegations ... ON CONFLICT (tzkt_id) DO NOTHING
InsertOutcome(w, r) ==
    IF Conflicts(w, r) THEN "skip"
    ELSE IF MustWait(w, r) THEN "wait" ELSE "insert"

\* Faulty variant: ON CONFLICT (tzkt_id) DO UPDATE writes a new version of the
\* stored row with the incoming values.
OnConflict_Update(w, r) ==
    {NewRow(r, (CHOOSE x \in Visible(w) : x.tzkt_id = r.TzktID).id)}

\* DO NOTHING: the row versions a conflicting INSERT writes.
OnConflict(w, r) == {}

\* Faulty variant: the statements ran outside a transaction, so what was
\* inserted stays after an error return.
Rollback_Keeps(w) ==
    /\ rows' = rows \cup pending[w]
    /\ pending' = [pending EXCEPT ![w] = {}]

\* defer tx.Rollback(): the transaction's rows are discarded.
Rollback(w) ==
    /\ rows' = rows
    /\ pending' = [pending EXCEPT ![w] = {}]

\* The caller still holds the slice after a successful call: syncOnce, for
\* len(batch), and a client that writes the same batch twice.
KeepsBatch(w) == w = Poller \/ repeat[w] # "no"

\* BulkInsert returns: its locals are gone.
Return(w, res) ==
    /\ txpc' = [txpc EXCEPT ![w] = "done"]
    /\ result' = [result EXCEPT ![w] = res]
    /\ idx' = [idx EXCEPT ![w] = 1]
    /\ batch' = [batch EXCEPT ![w] = IF res = "ok" /\ KeepsBatch(w) THEN @ ELSE <<>>]

\* One stmt.ExecContext of the loop over rows; after the last row the loop
\* ends and the call stands before tx.Commit. An error of the statement makes
\* BulkInsert return it ("dup": the error is a unique violation).
ExecContext(w) ==
    /\ txpc[w] = "exec"
    /\ ~CtxDone(w)
    /\ idx[w] <= Len(batch[w])
    /\ LET r == batch[w][idx[w]]
           o == InsertOutcome(w, r)
       IN  /\ o # "wait"
           /\ IF o = "unique_violation"
              THEN /\ Rollback(w)
                   /\ Return(w, "dup")
                   /\ UNCHANGED <<nextId, repeat>>
              ELSE /\ IF o = "skip"
                      THEN /\ pending' = [pending EXCEPT ![w] = @ \cup OnConflict(w, r)]
                           /\ UNCHANGED nextId
                      ELSE /\ nextId <= MaxSerial
                           /\ pending' = [pending EXCEPT ![w] = @ \cup {NewRow(r, nextId)}]
                           /\ nextId' = nextId + 1
                   /\ idx' = [idx EXCEPT ![w] = @ + 1]
                   /\ txpc' = [txpc EXCEPT ![w] =
                                 IF idx[w] = Len(batch[w]) THEN "commit" ELSE "exec"]
                   /\ UNCHANGED <<rows, batch, result, repeat>>

\* tx.Commit succeeds: the transaction's rows become visible to everyone.
Commit(w) ==
    /\ txpc[w] = "commit"
    /\ ~CtxDone(w)
    /\ rows' = rows \cup pending[w]
    /\ pending' = [pending EXCEPT ![w] = {}]
    /\ Return(w, "ok")
    /\ UNCHANGED <<nextId, repeat>>

\* Faulty variant: a call that returns an error and keeps what it inserted.
FailCall_Commits(w) ==
    /\ txpc[w] \in {"begin", "prepare", "exec", "commit"}
    /\ rows' = rows \cup pending[w]
    /\ pending' = [pending EXCEPT ![w] = {}]
    /\ Return(w, "err")
    /\ UNCHANGED <<nextId, repeat>>

\* BeginTx, PrepareContext, an ExecContext or Commit returns an error (storage
\* error, deadlock victim, or the call's ctx is done): BulkInsert returns the
\* error and the deferred Rollback runs. A failed COMMIT commits nothing.
FailCall(w) ==
    /\ txpc[w] \in {"begin", "prepare", "exec", "commit"}
    /\ Rollback(w)
    /\ Return(w, "err")
    /\ UNCHANGED <<nextId, repeat>>

\* ------------------------------------------------ direct use of the store
\* The batches a single client writes: rows of every identifier, of which a
\* batch may hold any more than once; identifier 1 comes with two timestamps,
\* so that a batch may repeat it with the same or with another row.
DirectBatches ==
    SeqsUpTo({r \in InsertDelegation :
                 /\ r.Delegator # "" /\ r.Level = MaxLevel
                 /\ r.Timestamp \in (IF r.TzktID = 1 THEN {1, MaxTs} ELSE {MaxTs})},
             MaxBatch)

\* The batches two concurrent clients write: identifiers in any order, each
\* at most once in a batch, one row per identifier.
ConcurrentBatches ==
    {b \in SeqsUpTo({r \in InsertDelegation :
                        r.Delegator # "" /\ r.Timestamp = MaxTs /\ r.Level = MaxLevel},
                    MaxBatch) :
        \A i \in DOMAIN b : \A j \in DOMAIN b : b[i] = b[j] => i = j}

\* One-row batches over every identifier and timestamp, at the lowest or the
\* highest level.
SingleRowBatches ==
    {<<r>> : r \in {x \in InsertDelegation :
                       x.Delegator # "" /\ x.Level \in {ZeroLevel, MaxLevel}}}

\* A client calls BulkInsert with any batch.
ClientCall(c, b) ==
    /\ txpc[c] \in {"idle", "done"}
    /\ StartCall(c, b, "no")
    /\ UNCHANGED pollerVars
    /\ UNCHANGED callVars

\* A client calls BulkInsert with a batch it is going to write twice, as
\* TestBulkInsert_Idempotent does.
ClientCallFirst(c, b) ==
    /\ txpc[c] \in {"idle", "done"}
    /\ StartCall(c, b, "first")
    /\ UNCHANGED pollerVars
    /\ UNCHANGED callVars

\* The client's first write succeeded: it calls BulkInsert again with the
\* same batch.
ClientCallAgain(c) ==
    /\ txpc[c] = "done"
    /\ result[c] = "ok"
    /\ repeat[c] = "first"
    /\ StartCall(c, batch[c], "second")
    /\ UNCHANGED pollerVars
    /\ UNCHANGED callVars

ClientStep(c) ==
    /\ \/ BeginTx(c)
       \/ PrepareContext(c)
       \/ ExecContext(c)
       \/ Commit(c)
    /\ UNCHANGED pollerVars
    /\ UNCHANGED callVars

ClientFail(c) ==
    /\ FailCall(c)
    /\ UNCHANGED pollerVars
    /\ UNCHANGED callVars

\* ------------------------------------------------------------------ Init
\* maxRetries := 3 and backoff := 1 * time.Second of FetchDelegations.
MaxRetries == 3
RetryBackoff == 1

\* No FetchDelegations call is running. tokens counts the tokens the call
\* got from the rate limiter, sent the requests it put on the wire.
FetchIdle ==
    [pc |-> "idle", attempt |-> 0, backoff |-> RetryBackoff, waits |-> <<>>, outs |-> <<>>,
     tokens |-> 0, sent |-> 0,
     lastErr |-> FALSE, status |-> 0, payload |-> "none", result |-> "none",
     events |-> <<>>]

\* No request has been served. rows are the table rows GetPage returned, in
\* its order; fault tells that the database or ctx failed the query. readAt
\* is the next value of the id sequence when the request was served; prev
\* and prevAt are the rows and the readAt of the page the client read before
\* it asked for this one.
ApiIdle ==
    [pc |-> "idle", yearParam |-> <<>>, pageParam |-> <<>>, status |-> 0, queries |-> 0,
     fault |-> FALSE, readAt |-> 0, prev |-> <<>>, prevAt |-> 0,
     year |-> [set |-> FALSE, val |-> <<0, 0, 0, 0>>], offset |-> <<0, 0, 0, 0>>,
     rows |-> <<>>, data |-> <<>>]

\* The process as main starts its three tasks: no signal has come, the HTTP
\* server task and the shutdown task run, main waits in g.Wait. crashAt is
\* the poller's position when the process was last stopped.
ProcStart ==
    [restarts |-> 0, crashAt |-> "none", signal |-> FALSE, server |-> "serving",
     shutdown |-> "waiting", took |-> 0, exit |-> "none"]

InitCalls ==
    /\ fetchCall = FetchIdle
    /\ apiCall = ApiIdle
    /\ timeZone = "UTC"
    /\ proc = ProcStart
    /\ upstream = {}

\* NewPoller: non-positive BatchSize, PollInterval and MaxBackoff get defaults.
NewPoller(c) ==
    [BatchSize    |-> IF c.BatchSize <= 0 THEN DefaultBatchSize ELSE c.BatchSize,
     PollInterval |-> IF c.PollInterval <= 0 THEN DefaultPollInterval ELSE c.PollInterval,
     GenesisStart |-> c.GenesisStart,
     MaxBackoff   |-> IF c.MaxBackoff <= 0 THEN DefaultMaxBackoff ELSE c.MaxBackoff]

\* The configuration main builds, with POLLER_BATCH_SIZE = MaxBatch and the
\* default POLLER_INTERVAL.
MainConfig ==
    [BatchSize |-> MaxBatch, PollInterval |-> DefaultPollInterval,
     GenesisStart |-> GenesisStart, MaxBackoff |-> MainMaxBackoff]

InitStore ==
    /\ rows = {}
    /\ nextId = 1
    /\ txpc = [w \in Callers |-> "idle"]
    /\ batch = [w \in Callers |-> <<>>]
    /\ idx = [w \in Callers |-> 1]
    /\ pending = [w \in Callers |-> {}]
    /\ result = [w \in Callers |-> "none"]
    /\ repeat = [w \in Callers |-> "no"]

InitPoller(c) ==
    /\ cfg = NewPoller(c)
    /\ pc = "start"
    /\ backoff = 0
    /\ lastTs = ZeroTime
    /\ wmRead = ZeroTime
    /\ resp = <<>>
    /\ fetched = 0
    /\ n = 0
    /\ slept = 0
    /\ fails = 0
    /\ lastErr = "none"
    /\ failsBefore = 0
    /\ cancelled = FALSE
    /\ cancelCause = "none"
    /\ cancelAt = "none"
    /\ backoffAtCancel = 0
    /\ lateOp = FALSE
    /\ runResult = "none"

Init == InitStore /\ InitPoller(MainConfig) /\ InitCalls

\* --------------------------------------------- the store used by one client
NextStore ==
    \/ \E b \in DirectBatches : ClientCall("c1", b)
    \/ \E b \in DirectBatches : ClientCallFirst("c1", b)
    \/ ClientCallAgain("c1")
    \/ ClientStep("c1")
    \/ ClientFail("c1")

SpecStore == Init /\ [][NextStore]_vars

\* ------------------------------------ the store used by concurrent clients
NextConcurrent ==
    \E c \in Clients :
        \/ \E b \in ConcurrentBatches : ClientCall(c, b)
        \/ ClientStep(c)
        \/ ClientFail(c)

SpecConcurrent == Init /\ [][NextConcurrent]_vars

\* ------------------------------- the store filled one row at a time
NextWatermark ==
    \/ \E b \in SingleRowBatches : ClientCall("c1", b)
    \/ ClientStep("c1")
    \/ ClientFail("c1")

SpecWatermark == Init /\ [][NextWatermark]_vars

\* ------------------------------------------------------------ the poller
IsZero(t) == t = ZeroTime

\* Faulty variant: syncOnce without the clamp.
ClampSince_NoClamp(ts, genesis) == ts

\* if lastTs.IsZero() || (!GenesisStart.IsZero() && lastTs.Before(GenesisStart))
\*     { lastTs = GenesisStart }
ClampSince(ts, genesis) ==
    IF IsZero(ts) \/ (~IsZero(genesis) /\ ts < genesis) THEN genesis ELSE ts

\* The store.InsertDelegation syncOnce builds from one fetched event.
ToInsert(d) ==
    [TzktID |-> d.ID, Timestamp |-> d.Timestamp, Amount |-> d.Amount,
     Delegator |-> d.Address, Level |-> d.Level]

\* Faulty variant: the loop without its `continue`.
FilterBatch_NoFilter(ds) == [i \in DOMAIN ds |-> ToInsert(ds[i])]

\* for _, d := range delegations { if d.Sender.Address == "" { continue }; append }
RECURSIVE FilterBatch(_)
FilterBatch(ds) ==
    IF ds = <<>> THEN <<>>
    ELSE IF Head(ds).Address = "" THEN FilterBatch(Tail(ds))
         ELSE <<ToInsert(Head(ds))>> \o FilterBatch(Tail(ds))

\* Faulty variant: doubling without the cap.
NextBackoff_NoCap(b, max) == 2 * b

\* if backoff < MaxBackoff { backoff *= 2; if backoff > MaxBackoff { backoff = MaxBackoff } }
NextBackoff(b, max) ==
    IF b < max
    THEN (IF 2 * b > max THEN max ELSE 2 * b)
    ELSE b

\* Faulty variant: Run returns the error, which makes the errgroup cancel gCtx.
AfterSyncError_Abort == "return"

\* What Run does with an error of syncOnce: it logs, sleeps and continues.
AfterSyncError == "backoff"

\* Faulty variant: a sleep that does not watch ctx.Done.
TimerMayFire_Uncancellable == TRUE

\* Both sleeps are a select between time.After and ctx.Done: the select
\* blocks until the first of the two events, so the timer ends the sleep only
\* while gCtx is not done.
TimerMayFire == ~cancelled

Sleeps == {"backoffSleep", "intervalSleep"}

\* A storage or upstream fault may be injected (at most k in a row); with
\* gCtx done every call fails.
MayFail(k) == cancelled \/ fails < k

\* The poller issues a call to the store or to the upstream client.
IssueCall == lateOp' = (lateOp \/ cancelAt \in Sleeps)

\* Run, err != nil: log, then the backoff sleep.
SyncFailed(kind) ==
    /\ lastErr' = kind
    /\ lastTs' = ZeroTime
    /\ wmRead' = ZeroTime
    /\ fails' = fails + 1
    /\ IF AfterSyncError = "backoff"
       THEN /\ pc' = "backoffSleep"
            /\ slept' = backoff
            /\ UNCHANGED <<runResult, cancelVars>>
       ELSE /\ pc' = "returned"
            /\ runResult' = "err"
            /\ cancelled' = TRUE
            /\ cancelCause' = IF cancelled THEN cancelCause ELSE "poller"
            /\ UNCHANGED <<slept, cancelAt, backoffAtCancel>>
    /\ UNCHANGED <<cfg, backoff, failsBefore>>

\* Faulty variant: a success leaves the backoff as the failures grew it.
ResetBackoff_Keep(b) == b

\* backoff = p.cfg.PollInterval
ResetBackoff(b) == cfg.PollInterval

\* Faulty variant: any count above zero continues at once.
LoopsAtOnce_NonZero(count) == count > 0

\* if n == p.cfg.BatchSize { continue }
LoopsAtOnce(count) == count = cfg.BatchSize

\* Run, err == nil: backoff = PollInterval; a full batch continues at once,
\* anything else sleeps PollInterval.
SyncSucceeded(count) ==
    /\ backoff' = ResetBackoff(backoff)
    /\ lastTs' = ZeroTime
    /\ wmRead' = ZeroTime
    /\ lastErr' = "none"
    /\ failsBefore' = fails
    /\ fails' = 0
    /\ IF LoopsAtOnce(count)
       THEN pc' = "top" /\ UNCHANGED slept
       ELSE pc' = "intervalSleep" /\ slept' = cfg.PollInterval
    /\ UNCHANGED <<cfg, runResult, cancelVars>>

\* backoff := p.cfg.PollInterval
RunStart ==
    /\ pc = "start"
    /\ backoff' = cfg.PollInterval
    /\ pc' = "top"
    /\ UNCHANGED <<cfg, lastTs, wmRead, resp, fetched, n, slept, fails, lastErr, failsBefore,
                   cancelVars, lateOp, runResult>>
    /\ UNCHANGED storeVars
    /\ UNCHANGED callVars

\* for { select { case <-ctx.Done(): return nil; default: } ...
LoopTop ==
    /\ pc = "top"
    /\ IF cancelled
       THEN pc' = "returned" /\ runResult' = "nil"
       ELSE pc' = "sync" /\ UNCHANGED runResult
    /\ UNCHANGED <<cfg, backoff, lastTs, wmRead, resp, fetched, n, slept, fails, lastErr, failsBefore,
                   cancelVars, lateOp>>
    /\ UNCHANGED storeVars
    /\ UNCHANGED callVars

\* syncOnce: GetLastSeen succeeds, lastTs is clamped.
GetLastSeenOk ==
    /\ pc = "sync"
    /\ ~cancelled
    /\ wmRead' = GetLastSeen(rows).ts
    /\ lastTs' = ClampSince(wmRead', cfg.GenesisStart)
    /\ pc' = "fetch"
    /\ IssueCall
    /\ UNCHANGED <<cfg, backoff, resp, fetched, n, slept, fails, lastErr, failsBefore, cancelVars, runResult>>
    /\ UNCHANGED storeVars
    /\ UNCHANGED callVars

\* syncOnce: GetLastSeen fails: return 0, "get last seen: ...".
GetLastSeenFail(k) ==
    /\ pc = "sync"
    /\ MayFail(k)
    /\ IssueCall
    /\ n' = 0
    /\ SyncFailed("get last seen")
    /\ UNCHANGED <<resp, fetched>>
    /\ UNCHANGED storeVars
    /\ UNCHANGED callVars

\* syncOnce: FetchDelegations(ctx, lastTs, BatchSize) returns the events ds.
\* No event: return 0, nil. Otherwise the filtered batch goes to BulkInsert.
FetchReturned(ds) ==
    /\ pc = "fetch"
    /\ Len(ds) <= cfg.BatchSize
    /\ IssueCall
    /\ fetched' = Len(ds)
    /\ IF Len(ds) = 0
       THEN /\ n' = 0
            /\ resp' = <<>>
            /\ SyncSucceeded(0)
            /\ UNCHANGED storeVars
       ELSE /\ resp' = ds
            /\ pc' = "insert"
            /\ StartCall(Poller, FilterBatch(ds), "no")
            /\ UNCHANGED <<cfg, backoff, lastTs, wmRead, n, slept, fails, lastErr, failsBefore,
                           cancelVars, runResult>>

\* FetchDelegations returns events: no call whose ctx is done does.
FetchOk(ds) ==
    /\ ~cancelled
    /\ FetchReturned(ds)
    /\ UNCHANGED callVars

\* syncOnce: FetchDelegations fails: return 0, "fetch delegations since ...".
FetchErrored ==
    /\ pc = "fetch"
    /\ IssueCall
    /\ n' = 0
    /\ SyncFailed("fetch delegations")
    /\ UNCHANGED <<resp, fetched>>
    /\ UNCHANGED storeVars

\* A fault is injected into FetchDelegations.
FetchFail(k) ==
    /\ MayFail(k)
    /\ FetchErrored
    /\ UNCHANGED callVars

\* The poller's BulkInsert call takes a step.
PollerInsertStep ==
    /\ pc = "insert"
    /\ \/ BeginTx(Poller)
       \/ PrepareContext(Poller)
       \/ ExecContext(Poller)
       \/ Commit(Poller)
    /\ resp' = <<>>
    /\ UNCHANGED <<pc, cfg, backoff, lastTs, wmRead, fetched, n, slept, fails, lastErr, failsBefore,
                   cancelVars, lateOp, runResult>>
    /\ UNCHANGED callVars

\* The poller's BulkInsert call fails.
PollerInsertFail(k) ==
    /\ pc = "insert"
    /\ MayFail(k)
    /\ FailCall(Poller)
    /\ resp' = <<>>
    /\ UNCHANGED <<pc, cfg, backoff, lastTs, wmRead, fetched, n, slept, fails, lastErr, failsBefore,
                   cancelVars, lateOp, runResult>>
    /\ UNCHANGED callVars

\* Faulty variant: the write is started and not waited for.
BulkInsertReturned_Async == TRUE

\* if err := p.store.BulkInsert(ctx, batch); ...: syncOnce goes on when the
\* call has returned.
BulkInsertReturned == txpc[Poller] = "done"

\* syncOnce after BulkInsert: an error is returned as "bulk insert ...",
\* otherwise the count is len(batch).
InsertReturn ==
    /\ pc = "insert"
    /\ BulkInsertReturned
    /\ IF result[Poller] = "ok"
       THEN /\ n' = Len(batch[Poller])
            /\ SyncSucceeded(n')
       ELSE /\ n' = 0
            /\ SyncFailed("bulk insert")
    /\ resp' = <<>>
    /\ txpc' = [txpc EXCEPT ![Poller] = "idle"]
    /\ batch' = [batch EXCEPT ![Poller] = <<>>]
    /\ result' = [result EXCEPT ![Poller] = "none"]
    /\ UNCHANGED <<rows, nextId, idx, pending, repeat>>
    /\ UNCHANGED <<fetched, lateOp>>
    /\ UNCHANGED callVars

\* select { case <-time.After(backoff): ... } then the backoff is doubled up to
\* MaxBackoff, and continue.
BackoffTimer ==
    /\ pc = "backoffSleep"
    /\ TimerMayFire
    /\ backoff' = NextBackoff(backoff, cfg.MaxBackoff)
    /\ pc' = "top"
    /\ slept' = 0
    /\ UNCHANGED <<cfg, lastTs, wmRead, resp, fetched, n, fails, lastErr, failsBefore,
                   cancelVars, lateOp, runResult>>
    /\ UNCHANGED storeVars
    /\ UNCHANGED callVars

\* select { case <-time.After(p.cfg.PollInterval): } and the loop goes round.
IntervalTimer ==
    /\ pc = "intervalSleep"
    /\ TimerMayFire
    /\ pc' = "top"
    /\ slept' = 0
    /\ UNCHANGED <<cfg, backoff, lastTs, wmRead, resp, fetched, n, fails, lastErr, failsBefore,
                   cancelVars, lateOp, runResult>>
    /\ UNCHANGED storeVars
    /\ UNCHANGED callVars

\* select { ... case <-ctx.Done(): return nil } in either sleep.
SleepCancelled ==
    /\ pc \in Sleeps
    /\ cancelled
    /\ pc' = "returned"
    /\ runResult' = "nil"
    /\ UNCHANGED <<cfg, backoff, lastTs, wmRead, resp, fetched, n, slept, fails, lastErr, failsBefore,
                   cancelVars, lateOp>>
    /\ UNCHANGED storeVars
    /\ UNCHANGED callVars

\* gCtx becomes done, wherever the poller stands.
CancelCtx(cause) ==
    /\ ~cancelled
    /\ runResult = "none"
    /\ cancelled' = TRUE
    /\ cancelCause' = cause
    /\ cancelAt' = pc
    /\ backoffAtCancel' = backoff
    /\ UNCHANGED <<pc, cfg, backoff, lastTs, wmRead, resp, fetched, n, slept, fails, lastErr, failsBefore,
                   lateOp, runResult>>
    /\ UNCHANGED storeVars

\* gCtx is cancelled: SIGINT/SIGTERM reaches signal.NotifyContext, or the HTTP
\* server's task returns an error to the errgroup.
Cancel ==
    /\ CancelCtx("external")
    /\ UNCHANGED callVars

\* Events the upstream may return: any identifier and address, with the zero
\* time, an instant before GenesisStart, GenesisStart or the latest instant.
Events ==
    {d \in Delegation :
        d.Level = MaxLevel /\ d.Timestamp \in {ZeroTime, 1, GenesisStart, MaxTs}}

\* What the upstream answers to sort.asc=id: up to MaxBatch events in ascending
\* order of their identifiers, whatever their timestamps and addresses.
Responses ==
    {ds \in SeqsUpTo(Events, MaxBatch) :
        \A i \in 1..(Len(ds) - 1) : ds[i].ID < ds[i + 1].ID}

Next ==
    \/ RunStart
    \/ LoopTop
    \/ GetLastSeenOk
    \/ GetLastSeenFail(MaxFaults)
    \/ \E ds \in Responses : FetchOk(ds)
    \/ FetchFail(MaxFaults)
    \/ PollerInsertStep
    \/ PollerInsertFail(MaxFaults)
    \/ InsertReturn
    \/ BackoffTimer
    \/ IntervalTimer
    \/ SleepCancelled
    \/ Cancel

Spec == Init /\ [][Next]_vars

\* ------------------------------------ the poller under every configuration
\* What a caller may hand to NewPoller: PollInterval from POLLER_INTERVAL (unset
\* fields are 0), MaxBackoff 0, the 8 s of the specification's example or
\* main's two minutes.
RawConfigs ==
    [BatchSize : {0, MaxBatch}, PollInterval : {0, 1, 3, 300},
     GenesisStart : {GenesisStart}, MaxBackoff : {0, 8, MainMaxBackoff}]

InitBackoff == InitStore /\ (\E c \in RawConfigs : InitPoller(c)) /\ InitCalls

\* Responses that repeat one event, which has a delegator.
BackoffResponses ==
    SeqsUpTo({d \in Events : d.ID = 1 /\ d.Timestamp = MaxTs /\ d.Address # ""}, MaxBatch)

NextBackoffSpec ==
    \/ RunStart
    \/ LoopTop
    \/ GetLastSeenOk
    \/ GetLastSeenFail(MaxFails)
    \/ \E ds \in BackoffResponses : FetchOk(ds)
    \/ FetchFail(MaxFails)
    \/ PollerInsertStep
    \/ PollerInsertFail(MaxFails)
    \/ InsertReturn
    \/ BackoffTimer
    \/ IntervalTimer
    \/ SleepCancelled
    \/ Cancel

SpecBackoff == InitBackoff /\ [][NextBackoffSpec]_vars

\* --------------------------------------- the upstream client's fetch call
\* What one c.http.Do(req) ends in: a network error, or a response with a
\* status ("s429closeErr": a 429 whose body fails to close).
Outcomes == {"neterr", "s200", "s404", "s429", "s429closeErr", "s503"}

StatusOf(o) ==
    CASE o = "s200" -> 200
      [] o = "s404" -> 404
      [] o \in {"s429", "s429closeErr"} -> 429
      [] o = "s503" -> 503
      [] OTHER -> 0

\* The body of a 200 response: a JSON array of events, bytes that are no JSON
\* array of events, or a JSON array of events followed by further bytes.
Payloads == {"events", "malformed", "trailing"}

\* The events a body's JSON array holds.
FetchBodies ==
    SeqsUpTo({d \in Events : d.ID = 1 /\ d.Timestamp = MaxTs /\ d.Address # ""}, MaxBatch)

\* if lastErr != nil { continue }; if resp.StatusCode == 429 { ...; continue }; break
Retried(o) == o \in {"neterr", "s429"}

\* Faulty variant: the wait is not doubled.
NextRetryBackoff_Constant(b) == b

\* case <-time.After(backoff): backoff *= 2
NextRetryBackoff(b) == 2 * b

\* json.NewDecoder(resp.Body).Decode(&out) reads the first JSON value of the
\* body and leaves what follows it unread.
Decodes(p) == p \in {"events", "trailing"}

\* After the retry loop: lastErr, then the status, then the decoding.
FinishCall(call, p, ds) ==
    IF call.lastErr \/ call.status >= 300 \/ ~Decodes(p)
    THEN [call EXCEPT !.pc = "done", !.result = "err"]
    ELSE [call EXCEPT !.pc = "done", !.result = "list", !.payload = p, !.events = ds]

\* The call as it stands after one c.http.Do(req) that ended in o.
AfterAttempt(call, o, p, ds) ==
    LET c == [call EXCEPT !.attempt = @ + 1, !.outs = Append(@, o),
                          !.lastErr = (o = "neterr"), !.status = StatusOf(o)]
    IN  IF o = "s429closeErr" THEN [c EXCEPT !.pc = "done", !.result = "err"]
        ELSE IF Retried(o) /\ c.attempt < MaxRetries THEN [c EXCEPT !.pc = "wait"]
        ELSE FinishCall(c, p, ds)

\* syncOnce calls FetchDelegations.
ClientStart ==
    /\ pc = "fetch"
    /\ fetchCall.pc = "idle"
    /\ fetchCall' = [FetchIdle EXCEPT !.pc = "limiter"]
    /\ UNCHANGED <<storeVars, pollerVars, apiCall, timeZone, proc, upstream>>

\* c.limiter.Wait(ctx) returns nil.
LimiterWait ==
    /\ fetchCall.pc = "limiter"
    /\ ~cancelled
    /\ fetchCall' = [fetchCall EXCEPT !.pc = "do", !.tokens = @ + 1]
    /\ UNCHANGED <<storeVars, pollerVars, apiCall, timeZone, proc, upstream>>

\* c.limiter.Wait(ctx) returns the error of a done ctx: "rate limiter: ...".
LimiterFail ==
    /\ fetchCall.pc = "limiter"
    /\ cancelled
    /\ fetchCall' = [fetchCall EXCEPT !.pc = "done", !.result = "err"]
    /\ UNCHANGED <<storeVars, pollerVars, apiCall, timeZone, proc, upstream>>

\* c.http.Do(req) puts the request on the wire; under a done ctx it sends
\* nothing.
ClientSend ==
    /\ fetchCall.pc = "do"
    /\ ~cancelled
    /\ fetchCall' = [fetchCall EXCEPT !.pc = "flight", !.sent = @ + 1]
    /\ UNCHANGED <<storeVars, pollerVars, apiCall, timeZone, proc, upstream>>

\* Faulty variant: a request that ignores its ctx.
CtxAborts_Ignored(o) == TRUE

\* http.NewRequestWithContext(ctx, ...): with ctx done, Do returns its error.
CtxAborts(o) == cancelled => o = "neterr"

\* c.http.Do(req) returns and what the loop makes of it: the answer to the
\* request in flight, or the error of a ctx that was done before the request
\* was sent. An outcome that makes the call fail needs a fault to inject.
ClientAttempt(o, p, ds) ==
    /\ fetchCall.pc = "flight" \/ (fetchCall.pc = "do" /\ cancelled)
    /\ CtxAborts(o)
    /\ IF o = "s200" THEN p # "malformed" \/ ds = <<>> ELSE p = "events" /\ ds = <<>>
    /\ fetchCall' = AfterAttempt(fetchCall, o, p, ds)
    /\ fetchCall'.result = "err" => MayFail(MaxFaults)
    /\ UNCHANGED <<storeVars, pollerVars, apiCall, timeZone, proc, upstream>>

\* attempt > 0: case <-time.After(backoff): backoff *= 2
RetryWait ==
    /\ fetchCall.pc = "wait"
    /\ ~cancelled
    /\ fetchCall' = [fetchCall EXCEPT !.pc = "do", !.waits = Append(@, fetchCall.backoff),
                                      !.backoff = NextRetryBackoff(@)]
    /\ UNCHANGED <<storeVars, pollerVars, apiCall, timeZone, proc, upstream>>

\* attempt > 0: case <-ctx.Done(): return nil, ctx.Err()
RetryCancelled ==
    /\ fetchCall.pc = "wait"
    /\ cancelled
    /\ fetchCall' = [fetchCall EXCEPT !.pc = "done", !.result = "err"]
    /\ UNCHANGED <<storeVars, pollerVars, apiCall, timeZone, proc, upstream>>

\* FetchDelegations returns out, nil to syncOnce.
ClientReturnsList ==
    /\ fetchCall.pc = "done"
    /\ fetchCall.result = "list"
    /\ FetchReturned(fetchCall.events)
    /\ fetchCall' = FetchIdle
    /\ UNCHANGED <<apiCall, timeZone, proc, upstream>>

\* FetchDelegations returns nil, err to syncOnce.
ClientReturnsError ==
    /\ fetchCall.pc = "done"
    /\ fetchCall.result = "err"
    /\ FetchErrored
    /\ fetchCall' = FetchIdle
    /\ UNCHANGED <<apiCall, timeZone, proc, upstream>>

\* The poller with the upstream client in place of injected fetch results.
NextFetch ==
    \/ RunStart
    \/ LoopTop
    \/ GetLastSeenOk
    \/ ClientStart
    \/ LimiterWait
    \/ LimiterFail
    \/ ClientSend
    \/ \E o \in Outcomes : \E p \in Payloads : \E ds \in FetchBodies : ClientAttempt(o, p, ds)
    \/ RetryWait
    \/ RetryCancelled
    \/ ClientReturnsList
    \/ ClientReturnsError
    \/ PollerInsertStep
    \/ PollerInsertFail(MaxFaults)
    \/ InsertReturn
    \/ BackoffTimer
    \/ IntervalTimer
    \/ SleepCancelled
    \/ Cancel

SpecFetch == Init /\ [][NextFetch]_vars

\* ------------------------------------------- the process stops and restarts
\* The largest number of restarts of the process.
MaxRestarts == 1

\* Faulty variant: a table that does not outlive the process.
Survives_InMemory(rs) == {}

\* CREATE TABLE delegations: an ordinary table, whose committed rows outlive
\* the process and its connections.
\* Faulty variant: the restart brings back an older table, without the
\* latest rows.
Survives_Stale(rs) == {r \in rs : r.timestamp < MaxTs}

Survives(rs) == rs

\* The process stops at any point and is started again: the goroutines and
\* their locals are gone, the database ends the session and with it the
\* transaction the poller had open, and main builds the poller anew from the
\* same configuration.
Crash ==
    /\ proc.restarts < MaxRestarts
    /\ proc' = [proc EXCEPT !.restarts = @ + 1,
                            !.crashAt = IF pc = "insert" THEN txpc[Poller] ELSE pc]
    /\ rows' = Survives(rows)
    /\ txpc' = [txpc EXCEPT ![Poller] = "idle"]
    /\ batch' = [batch EXCEPT ![Poller] = <<>>]
    /\ idx' = [idx EXCEPT ![Poller] = 1]
    /\ pending' = [pending EXCEPT ![Poller] = {}]
    /\ result' = [result EXCEPT ![Poller] = "none"]
    /\ pc' = "start"
    /\ backoff' = 0
    /\ lastTs' = ZeroTime
    /\ wmRead' = ZeroTime
    /\ resp' = <<>>
    /\ fetched' = 0
    /\ n' = 0
    /\ slept' = 0
    /\ fails' = 0
    /\ lastErr' = "none"
    /\ failsBefore' = 0
    /\ cancelled' = FALSE
    /\ cancelCause' = "none"
    /\ cancelAt' = "none"
    /\ backoffAtCancel' = 0
    /\ lateOp' = FALSE
    /\ runResult' = "none"
    /\ fetchCall' = FetchIdle
    /\ UNCHANGED <<nextId, repeat, cfg, apiCall, timeZone, upstream>>

\* The poller with injected failures, under stops and restarts of the
\* process; the upstream answers with events that have a delegator and a
\* timestamp.
NextCrash ==
    \/ RunStart
    \/ LoopTop
    \/ GetLastSeenOk
    \/ GetLastSeenFail(1)
    \/ \E ds \in {x \in Responses : \A i \in DOMAIN x :
                        x[i].Address # "" /\ x[i].Timestamp # ZeroTime} : FetchOk(ds)
    \/ FetchFail(1)
    \/ PollerInsertStep
    \/ PollerInsertFail(1)
    \/ InsertReturn
    \/ BackoffTimer
    \/ IntervalTimer
    \/ Crash

SpecCrash == Init /\ [][NextCrash]_vars

\* ------------------------------------------------ main and its three tasks
\* context.WithTimeout(context.Background(), 10*time.Second)
ShutdownGrace == 10

\* SIGINT or SIGTERM reaches signal.NotifyContext: ctx is done and with it
\* gCtx. The signals stay caught until main returns, so a further signal
\* changes nothing.
SignalFires ==
    /\ ~proc.signal
    /\ proc.exit = "none"
    /\ proc' = [proc EXCEPT !.signal = TRUE]
    /\ IF cancelled THEN UNCHANGED <<storeVars, pollerVars>> ELSE CancelCtx("signal")
    /\ UNCHANGED <<fetchCall, apiCall, timeZone, upstream>>

\* srv.ListenAndServe returns an error other than ErrServerClosed: the task
\* returns it, and the first error of a task makes the errgroup cancel gCtx.
ServerFails ==
    /\ proc.server = "serving"
    /\ proc.shutdown = "waiting"
    /\ proc' = [proc EXCEPT !.server = "failed"]
    /\ IF cancelled THEN UNCHANGED <<storeVars, pollerVars>> ELSE CancelCtx("server")
    /\ UNCHANGED <<fetchCall, apiCall, timeZone, upstream>>

\* The shutdown task: <-gCtx.Done() returns and srv.Shutdown(shutdownCtx) is
\* called.
ShutdownStart ==
    /\ proc.shutdown = "waiting"
    /\ cancelled
    /\ proc' = [proc EXCEPT !.shutdown = "draining"]
    /\ UNCHANGED <<storeVars, pollerVars, fetchCall, apiCall, timeZone, upstream>>

\* Once Shutdown was called srv.ListenAndServe returns ErrServerClosed, and
\* the server task returns nil.
ServerCloses ==
    /\ proc.server = "serving"
    /\ proc.shutdown # "waiting"
    /\ proc' = [proc EXCEPT !.server = "closed"]
    /\ UNCHANGED <<storeVars, pollerVars, fetchCall, apiCall, timeZone, upstream>>

\* srv.Shutdown returns after t seconds: nil when the connections were idle
\* by then, the error of shutdownCtx when the grace period ran out, which the
\* task returns as "http shutdown error".
ShutdownReturns(t) ==
    /\ proc.shutdown = "draining"
    /\ proc' = [proc EXCEPT !.took = t,
                            !.shutdown = IF t < ShutdownGrace THEN "ok" ELSE "timeout"]
    /\ UNCHANGED <<storeVars, pollerVars, fetchCall, apiCall, timeZone, upstream>>

\* Faulty variant: main goes on when the first task has returned.
GroupDone_First ==
    runResult # "none" \/ proc.server \in {"failed", "closed"} \/ proc.shutdown \in {"ok", "timeout"}

\* g.Wait() returns when the three tasks have returned.
GroupDone ==
    runResult # "none" /\ proc.server \in {"failed", "closed"} /\ proc.shutdown \in {"ok", "timeout"}

\* main after g.Wait(): os.Exit(1) on an error of a task, else it returns.
MainExit ==
    /\ proc.exit = "none"
    /\ GroupDone
    /\ proc' = [proc EXCEPT !.exit =
                    IF runResult = "err" \/ proc.server = "failed" \/ proc.shutdown = "timeout"
                    THEN "1" ELSE "0"]
    /\ UNCHANGED <<storeVars, pollerVars, fetchCall, apiCall, timeZone, upstream>>

\* The poller's steps while the process runs; no step of it after the exit.
PollerTask ==
    /\ proc.exit = "none"
    /\ \/ RunStart
       \/ LoopTop
       \/ GetLastSeenOk
       \/ GetLastSeenFail(1)
       \/ \E ds \in BackoffResponses : FetchOk(ds)
       \/ FetchFail(1)
       \/ PollerInsertStep
       \/ PollerInsertFail(1)
       \/ InsertReturn
       \/ BackoffTimer
       \/ IntervalTimer
       \/ SleepCancelled

NextMain ==
    \/ PollerTask
    \/ SignalFires
    \/ ServerFails
    \/ ShutdownStart
    \/ ServerCloses
    \/ \E t \in {0, 1, ShutdownGrace} : ShutdownReturns(t)
    \/ MainExit

\* Every goroutine that can take a step takes one in the end, calls under a
\* done ctx and srv.Shutdown return, and main leaves g.Wait() when it can.
SpecMain ==
    /\ Init
    /\ [][NextMain]_vars
    /\ WF_vars(PollerTask)
    /\ WF_vars(ShutdownStart)
    /\ WF_vars(ServerCloses)
    /\ WF_vars(\E t \in {0, 1, ShutdownGrace} : ShutdownReturns(t))
    /\ WF_vars(MainExit)

\* ------------------------------------------------- GET /xtz/delegations
\* const pageSize = 50
PageSize == 50

\* The largest number of rows the table holds when requests are served.
MaxRows == 60

\* Go's int on the 64-bit build: two's complement in 4 limbs of 16 bits, the
\* least significant first.
LimbBase == 65536
SignLimb == 32768
Word(k) == <<k % LimbBase, k \div LimbBase, 0, 0>>

\* x * m + a for small m and a: the limbs of the result modulo 2^64, and the
\* carry out of the last limb.
MulAdd(x, m, a) ==
    LET carry[i \in 0..Len(x)] ==
            IF i = 0 THEN a ELSE (x[i] * m + carry[i - 1]) \div LimbBase
    IN  [limbs |-> [i \in 1..Len(x) |-> (x[i] * m + carry[i - 1]) % LimbBase],
         carry |-> carry[Len(x)]]

\* x + y modulo 2^64.
Add(x, y) ==
    LET carry[i \in 0..Len(x)] ==
            IF i = 0 THEN 0 ELSE (x[i] + y[i] + carry[i - 1]) \div LimbBase
    IN  [i \in 1..Len(x) |-> (x[i] + y[i] + carry[i - 1]) % LimbBase]

\* -x modulo 2^64.
Neg(x) == Add([i \in 1..Len(x) |-> LimbBase - 1 - x[i]], Word(1))

IsNeg(x) == x[Len(x)] >= SignLimb

\* x is in 0..2^31-1, the non-negative values of a 32-bit integer.
FitsInt4(x) == x[4] = 0 /\ x[3] = 0 /\ x[2] < SignLimb
Small(x) == x[1] + LimbBase * x[2]

\* x < k for a small k.
LessThan(x, k) == IsNeg(x) \/ (FitsInt4(x) /\ Small(x) < k)

DigitVal == [c \in {"0", "1", "2", "3", "4", "5", "6", "7", "8", "9"} |->
                CASE c = "0" -> 0 [] c = "1" -> 1 [] c = "2" -> 2 [] c = "3" -> 3
                  [] c = "4" -> 4 [] c = "5" -> 5 [] c = "6" -> 6 [] c = "7" -> 7
                  [] c = "8" -> 8 [] c = "9" -> 9]

\* The decimal digits ds read as an unsigned number: its limbs modulo 2^64,
\* and whether it is 2^64 or more.
Magnitude(ds) ==
    LET acc[i \in 0..Len(ds)] ==
            IF i = 0 THEN [limbs |-> Word(0), over |-> FALSE]
            ELSE LET prev == acc[i - 1]
                     step == MulAdd(prev.limbs, 10, DigitVal[ds[i]])
                 IN  [limbs |-> step.limbs, over |-> prev.over \/ step.carry # 0]
    IN  acc[Len(ds)]

\* s is an optional sign followed by one decimal digit or more.
Signed(s) == Len(s) > 0 /\ s[1] \in {"+", "-"}
Digits(s) == IF Signed(s) THEN Tail(s) ELSE s
Numeric(s) == Digits(s) # <<>> /\ \A i \in 1..Len(Digits(s)) : Digits(s)[i] \in DOMAIN DigitVal

\* The value of the signed number of magnitude mag is outside of int.
OutOfInt(minus, mag) ==
    \/ mag.over
    \/ (~minus /\ IsNeg(mag.limbs))
    \/ (minus /\ IsNeg(mag.limbs) /\ mag.limbs # Neg(mag.limbs))

\* The int of a numeric string, or the range error.
ParseInt(minus, mag) ==
    IF OutOfInt(minus, mag) THEN [err |-> TRUE, val |-> Word(0)]
    ELSE [err |-> FALSE, val |-> IF minus THEN Neg(mag.limbs) ELSE mag.limbs]

\* strconv.Atoi on a string given as the sequence of its characters: an
\* optional sign and decimal digits; an error when there is no digit, a
\* character that is no digit, or a value outside of int.
Atoi(s) ==
    IF ~Numeric(s) THEN [err |-> TRUE, val |-> Word(0)]
    ELSE ParseInt(s[1] = "-", Magnitude(Digits(s)))

\* The values of the year parameter of a request: absent, no number, 2017,
\* 2018, 2019, 2030, 3000000000 and 2^63.
YearParams ==
    {<<>>, <<"a", "b", "c">>, <<"2", "0", "1", "7">>, <<"2", "0", "1", "8">>,
     <<"2", "0", "1", "9">>, <<"2", "0", "3", "0">>,
     <<"3", "0", "0", "0", "0", "0", "0", "0", "0", "0">>,
     <<"9", "2", "2", "3", "3", "7", "2", "0", "3", "6", "8", "5", "4", "7", "7", "5", "8", "0", "8">>}

\* The values of the page parameter of a request: absent, no number, 0, -1,
\* 1, 2, 3, 184467440737095518, 1106804644422573098 and 2^63.
PageParams ==
    {<<>>, <<"x">>, <<"0">>, <<"-", "1">>, <<"1">>, <<"2">>, <<"3">>,
     <<"1", "8", "4", "4", "6", "7", "4", "4", "0", "7", "3", "7", "0", "9", "5", "5", "1", "8">>,
     <<"1", "1", "0", "6", "8", "0", "4", "6", "4", "4", "4", "2", "2", "5", "7", "3", "0", "9", "8">>,
     <<"9", "2", "2", "3", "3", "7", "2", "0", "3", "6", "8", "5", "4", "7", "7", "5", "8", "0", "8">>}

\* if err != nil || y < 2018
InvalidYear(y) == y.err \/ LessThan(y.val, 2018)

\* Faulty variant: page 0 passes.
InvalidPage_ZeroPasses(p) == p.err \/ LessThan(p.val, 0)

\* if err != nil || p <= 0
InvalidPage(p) == p.err \/ LessThan(p.val, 1)

\* offset := (page - 1) * pageSize, in int arithmetic
OffsetOf(page) == MulAdd(Add(page, Neg(Word(1))), PageSize, 0).limbs

\* Faulty variant: ties of timestamp broken by ascending id.
Before_IdAscending(a, b) ==
    a.timestamp > b.timestamp \/ (a.timestamp = b.timestamp /\ a.id < b.id)

\* ORDER BY timestamp DESC, id DESC: a comes before b.
Before(a, b) ==
    a.timestamp > b.timestamp \/ (a.timestamp = b.timestamp /\ a.id > b.id)

\* WHERE year = $1, or no WHERE clause.
Matching(rs, year) == IF year.set THEN {r \in rs : r.year = Small(year.val)} ELSE rs

\* The number of rows of S that ORDER BY puts before r.
RankOf(S, r) == Cardinality({x.id : x \in {y \in S : Before(y, r)}})

\* LIMIT limit OFFSET offset over rows given with their ranks.
Window(ranked, limit, offset) ==
    [i \in 1..Max(0, Min(limit, Cardinality(ranked) - offset)) |->
        (CHOOSE p \in ranked : p[1] = offset + i - 1)[2]]

\* ORDER BY ... LIMIT limit OFFSET offset over the rows S.
PageRows(S, limit, offset) == Window({<<RankOf(S, r), r>> : r \in S}, limit, offset)

\* Faulty variant: a read that sees the rows of open transactions.
Snapshot_Dirty == rows \cup UNION {pending[w] : w \in Callers}

\* s.db.QueryContext runs the SELECT as one statement at READ COMMITTED: it
\* sees the rows committed before it started.
Snapshot == rows

\* GetPage: the query fails when the database or ctx fails it, when the year
\* is no value of the INT column it is compared with, and when the offset is
\* negative; else it returns the rows of the window in order.
GetPage(year, limit, offset, fault) ==
    IF fault \/ (year.set /\ ~FitsInt4(year.val)) \/ IsNeg(offset)
    THEN [err |-> TRUE, rows |-> <<>>]
    ELSE [err |-> FALSE,
          rows |-> IF FitsInt4(offset)
                   THEN PageRows(Matching(Snapshot, year), limit, Small(offset))
                   ELSE <<>>]

\* responseDelegation: the fields of a row the response shows.
ResponseDelegation(d) ==
    [timestamp |-> d.timestamp, amount |-> d.amount, delegator |-> d.delegator,
     level |-> d.level]

\* A request arrives.
Request(yearParam, pageParam) ==
    /\ apiCall.pc # "pending"
    /\ apiCall' = [ApiIdle EXCEPT !.pc = "pending", !.yearParam = yearParam,
                                  !.pageParam = pageParam]
    /\ UNCHANGED <<storeVars, pollerVars, fetchCall, timeZone, proc, upstream>>

\* The response to a request whose parameters passed, from what GetPage
\* returned.
Respond(call, year, offset, fault, got) ==
    [call EXCEPT
        !.pc = "done",
        !.queries = 1,
        !.fault = fault,
        !.year = year,
        !.offset = offset,
        !.status = IF got.err THEN 500 ELSE 200,
        !.rows = got.rows,
        !.data = [i \in 1..Len(got.rows) |-> ResponseDelegation(got.rows[i])]]

\* The year and the page of a request whose parameters passed: the query and
\* its response.
Query(call, year, page, fault) ==
    Respond(call, year, OffsetOf(page), fault,
            GetPage(year, PageSize, OffsetOf(page), fault))

\* handleDelegations on the values Atoi gave for the two parameters.
Handle(call, y, p, fault) ==
    IF call.yearParam # <<>> /\ InvalidYear(y)
    THEN [call EXCEPT !.pc = "done", !.status = 400]
    ELSE IF call.pageParam # <<>> /\ InvalidPage(p)
    THEN [call EXCEPT !.pc = "done", !.status = 400]
    ELSE Query(call,
               IF call.yearParam = <<>> THEN [set |-> FALSE, val |-> Word(0)]
               ELSE [set |-> TRUE, val |-> y.val],
               IF call.pageParam = <<>> THEN Word(1) ELSE p.val,
               fault)

\* handleDelegations serves the request.
HandleDelegations(fault) ==
    /\ apiCall.pc = "pending"
    /\ apiCall' = [Handle(apiCall, Atoi(apiCall.yearParam), Atoi(apiCall.pageParam), fault)
                       EXCEPT !.readAt = nextId]
    /\ UNCHANGED <<storeVars, pollerVars, fetchCall, timeZone, proc, upstream>>

\* A row of the table the requests are served from.
ApiRow(i) ==
    NewRow([TzktID |-> i, Timestamp |-> 1 + (i % MaxTs), Amount |-> 100,
            Delegator |-> "tz1abc", Level |-> MaxLevel], i)

\* The numbers of rows of the tables the requests are served from: around
\* one page, and up to MaxRows.
TableSizes == {0, 1, PageSize - 1, PageSize, PageSize + 1, MaxRows}

\* The table after the poller wrote k rows, under any session time zone.
InitApi ==
    /\ InitPoller(MainConfig)
    /\ fetchCall = FetchIdle
    /\ apiCall = ApiIdle
    /\ timeZone \in TimeZones
    /\ proc = ProcStart
    /\ upstream = {}
    /\ \E k \in TableSizes :
          /\ rows = {ApiRow(i) : i \in 1..k}
          /\ nextId = k + 1
    /\ txpc = [w \in Callers |-> "idle"]
    /\ batch = [w \in Callers |-> <<>>]
    /\ idx = [w \in Callers |-> 1]
    /\ pending = [w \in Callers |-> {}]
    /\ result = [w \in Callers |-> "none"]
    /\ repeat = [w \in Callers |-> "no"]

NextApi ==
    \/ \E y \in YearParams, p \in PageParams : Request(y, p)
    \/ \E fault \in BOOLEAN : HandleDelegations(fault)

SpecApi == InitApi /\ [][NextApi]_vars

\* ------------------------------------ page reads while clients write
\* Requests without parameters and for the year of the rows written, served
\* while two clients write.
NextRead ==
    \/ NextConcurrent
    \/ \E y \in {<<>>, <<"2", "0", "1", "9">>} : Request(y, <<>>)
    \/ \E fault \in BOOLEAN : HandleDelegations(fault)

SpecRead == Init /\ [][NextRead]_vars

\* --------------------------------- the poller against a fixed upstream
\* The largest number of events the upstream holds, and the number of
\* instants after GenesisStart their timestamps range over.
MaxEvents == 3
MaxAhead == 2

\* What the upstream answers to timestamp.gt=since, sort.asc=id, limit=limit:
\* of its events later than since, the first `limit` in ascending order of
\* their identifiers.
Answer(evs, since, limit) ==
    [i \in 1..Min(limit, Cardinality({d \in evs : d.Timestamp > since})) |->
        CHOOSE d \in evs :
            /\ d.Timestamp > since
            /\ Cardinality({x \in evs : x.Timestamp > since /\ x.ID < d.ID}) = i - 1]

\* main's poller with any POLLER_BATCH_SIZE from 1 on, and an upstream that
\* holds the events 1..k, whose timestamps lie at or after GenesisStart and
\* do not decrease with the identifier, several events may share one; any of
\* them may lack the sender address.
InitIngest ==
    /\ InitStore
    /\ \E b \in 1..MaxBatch : InitPoller([MainConfig EXCEPT !.BatchSize = b])
    /\ fetchCall = FetchIdle
    /\ apiCall = ApiIdle
    /\ timeZone = "UTC"
    /\ proc = ProcStart
    /\ \E k \in 0..MaxEvents :
          \E ts \in [1..k -> GenesisStart..(GenesisStart + MaxAhead)] :
          \E ad \in [1..k -> Addresses] :
              /\ \A i \in 1..(k - 1) : ts[i] <= ts[i + 1]
              /\ upstream = {[ID |-> i, Level |-> MaxLevel, Timestamp |-> ts[i],
                              Amount |-> CHOOSE a \in Amounts : TRUE, Address |-> ad[i]] :
                                 i \in 1..k}

\* The loop with no failure and no cancellation: every fetch is answered by
\* the upstream.
NextIngest ==
    \/ RunStart
    \/ LoopTop
    \/ GetLastSeenOk
    \/ FetchOk(Answer(upstream, lastTs, cfg.BatchSize))
    \/ PollerInsertStep
    \/ InsertReturn
    \/ IntervalTimer

\* The poller's goroutine keeps running, its calls return and its timer
\* fires.
SpecIngest == InitIngest /\ [][NextIngest]_vars /\ WF_vars(NextIngest)

\* ------------------------------- a client pages while the poller ingests
\* The client got page 1 and asks for page 2 with the same year.
RequestNext ==
    /\ apiCall.pc = "done"
    /\ apiCall.status = 200
    /\ apiCall.pageParam \in {<<>>, <<"1">>}
    /\ apiCall' = [ApiIdle EXCEPT !.pc = "pending", !.yearParam = apiCall.yearParam,
                                  !.pageParam = <<"2">>, !.prev = apiCall.rows,
                                  !.prevAt = apiCall.readAt]
    /\ UNCHANGED <<storeVars, pollerVars, fetchCall, timeZone, proc, upstream>>

\* An iteration of the poller as the readers see it: the transaction of
\* BulkInsert commits the row of one fetched event d, whose identifier is not
\* stored yet.
IngestCommit(d) ==
    /\ d.Address # ""
    /\ ~HoldsTzktID(rows, ToInsert(d))
    /\ rows' = rows \cup {NewRow(ToInsert(d), nextId)}
    /\ nextId' = nextId + 1
    /\ UNCHANGED <<txpc, batch, idx, pending, result, repeat>>
    /\ UNCHANGED <<pollerVars, callVars>>

\* Page 1, then page 2, of all rows, while the poller stores events with new
\* identifiers and any timestamp.
NextPaging ==
    \/ \E p \in {<<>>, <<"1">>} : Request(<<>>, p)
    \/ RequestNext
    \/ \E fault \in BOOLEAN : HandleDelegations(fault)
    \/ \E i \in 1..MaxTzktID : \E t \in 1..MaxTs :
          IngestCommit([ID |-> MaxRows + i, Level |-> MaxLevel, Timestamp |-> t,
                        Amount |-> CHOOSE a \in Amounts : TRUE, Address |-> "tz1abc"])

SpecPaging == InitApi /\ [][NextPaging]_vars

\* ------------------------------------------------------------------ claims
\* C1: under any interleaving of concurrent BulkInsert calls, failed calls and
\* re-writes of identifiers already stored, no two persisted rows carry the
\* same upstream identifier (tzkt_id).
C1_UniqueTzktID ==
    \A r1 \in rows : \A r2 \in rows : r1.tzkt_id = r2.tzkt_id => r1 = r2

\* Both identifiers are stored, and a client's open transaction has gone
\* through a non-empty batch of which every row was skipped as already stored.
C1_Witness ==
    /\ Cardinality(rows) = MaxTzktID
    /\ \E c \in Clients :
          /\ txpc[c] = "commit"
          /\ Len(batch[c]) = MaxBatch
          /\ pending[c] = {}

\* C2: a BulkInsert that repeats the batch of the caller's previous,
\* successful call never fails on a duplicate identifier (it ends in success
\* unless a storage fault is injected) and, when it succeeds, leaves the set of
\* persisted rows as it was.
C2_Idempotent ==
    [][\A w \in Callers :
          (repeat[w] = "second" /\ result[w] = "none" /\ result'[w] # "none")
              => /\ result'[w] \in {"ok", "err"}
                 /\ result'[w] = "ok" => rows' = rows]_vars

\* The second write of a batch that names one identifier twice, with
\* different timestamps, has returned success.
C2_Witness ==
    \E w \in Callers :
        /\ repeat[w] = "second" /\ txpc[w] = "done" /\ result[w] = "ok"
        /\ Len(batch[w]) = 2
        /\ batch[w][1].TzktID = batch[w][2].TzktID
        /\ batch[w][1] # batch[w][2]
        /\ Cardinality(rows) = 1

C5_SinceIsClampedWatermark ==
    pc = "fetch" =>
        /\ wmRead = (IF rows = {} THEN ZeroTime
                     ELSE CHOOSE t \in {r.timestamp : r \in rows} :
                              \A r \in rows : r.timestamp <= t)
        /\ lastTs = Max(wmRead, cfg.GenesisStart)
        /\ lastTs >= cfg.GenesisStart
        /\ (rows = {} \/ wmRead < cfg.GenesisStart) => lastTs = cfg.GenesisStart
        /\ (rows # {} /\ wmRead >= cfg.GenesisStart) => lastTs = wmRead

\* The poller is about to fetch from a store whose newest row is older than
\* the genesis floor.
C5_Witness ==
    /\ pc = "fetch"
    /\ rows # {}
    /\ wmRead < cfg.GenesisStart
    /\ lastTs = cfg.GenesisStart

\* C6: no persisted row has an empty delegator address; of the events a fetch
\* returned, exactly those with a non-empty address are handed to BulkInsert.
C6_NoEmptyDelegator ==
    /\ \A r \in rows \cup pending[Poller] : r.delegator # ""
    /\ (pc = "insert" /\ resp # <<>>) =>
          /\ \A i \in DOMAIN batch[Poller] : batch[Poller][i].Delegator # ""
          /\ Len(batch[Poller]) = Cardinality({i \in DOMAIN resp : resp[i].Address # ""})
          /\ \A i \in DOMAIN resp :
                resp[i].Address # "" =>
                    \E j \in DOMAIN batch[Poller] :
                        /\ batch[Poller][j].TzktID = resp[i].ID
                        /\ batch[Poller][j].Timestamp = resp[i].Timestamp
                        /\ batch[Poller][j].Delegator = resp[i].Address

\* An iteration fetched a full batch, dropped one event for its empty address
\* and persisted the other.
C6_Witness ==
    /\ pc = "intervalSleep"
    /\ fetched = MaxBatch
    /\ n = MaxBatch - 1
    /\ Cardinality(rows) = 1

\* C7: with PollInterval <= MaxBackoff, the sleep after the k-th consecutive
\* failed iteration lasts min(PollInterval * 2^(k-1), MaxBackoff).
C7_BackoffGrowth ==
    (pc = "backoffSleep" /\ cfg.PollInterval <= cfg.MaxBackoff) =>
        slept = Min(cfg.PollInterval * Pow2(fails - 1), cfg.MaxBackoff)

\* Base 1 s and cap 8 s: the fifth consecutive failure sleeps 8 s.
C7_Witness ==
    /\ pc = "backoffSleep"
    /\ cfg.PollInterval = 1
    /\ cfg.MaxBackoff = 8
    /\ fails = 5
    /\ slept = 8

\* C8: under every configuration NewPoller accepts, the sleep after a failed
\* iteration never exceeds MaxBackoff.
C8_SleepWithinMaxBackoff ==
    pc = "backoffSleep" => slept <= cfg.MaxBackoff

\* C9: Run does not return on a failed iteration: it returns only once gCtx
\* is cancelled, by something other than the poller, and then returns nil.
C9_RunNeverAborts ==
    /\ runResult # "none" => (runResult = "nil" /\ cancelled /\ cancelCause = "external")
    /\ pc = "returned" <=> runResult # "none"
    /\ ~cancelled => cancelCause = "none"
    /\ (fails > 0 /\ ~cancelled) => pc \in {"backoffSleep", "top", "sync", "fetch", "insert"}

\* Run returned nil after two failed iterations in a row, the last one a
\* failed BulkInsert.
C9_Witness ==
    /\ runResult = "nil"
    /\ fails >= 2
    /\ lastErr = "bulk insert"

\* C10: once gCtx is cancelled while the poller is in one of its sleeps, the
\* poller issues no further call to the store or the upstream client, its
\* backoff keeps the value it had, and its only step is to return.
C10_CancelDuringSleep ==
    cancelAt \in Sleeps =>
        /\ ~lateOp
        /\ backoff = backoffAtCancel
        /\ pc \in {cancelAt, "returned"}
        /\ txpc[Poller] = "idle"

\* Run returned after a cancellation met it in a backoff sleep that followed
\* a second failure.
C10_Witness ==
    /\ pc = "returned"
    /\ cancelAt = "backoffSleep"
    /\ fails = 2
    /\ backoff > cfg.PollInterval

\* C11: a successful iteration whose fetch returned exactly BatchSize events
\* is never followed by the full-interval sleep, whatever number of the events
\* was dropped for an empty address.
C11_FullBatchLoopsAtOnce ==
    pc = "intervalSleep" => fetched # cfg.BatchSize

\* C12: a successful iteration whose fetch returned fewer than BatchSize
\* events ends in the sleep of exactly PollInterval, which only its timer or
\* a cancellation ends; an iteration whose fetch returned no event goes to
\* that sleep straight from the fetch, without a BulkInsert call.
C12_PartialBatchSleepsInterval ==
    [][/\ (pc \in {"fetch", "insert"} /\ pc' \in {"top", "intervalSleep"}
             /\ fetched' < cfg.BatchSize)
            => /\ pc' = "intervalSleep"
               /\ slept' = cfg.PollInterval
               /\ fetched' = 0 => (pc = "fetch" /\ UNCHANGED storeVars)
       /\ (pc = "intervalSleep" /\ pc' # pc)
            => (slept = cfg.PollInterval /\ pc' \in {"top", "returned"})]_vars

\* After a fetch of one event under BatchSize 2 the poller sleeps 3 s, its
\* PollInterval, with the event stored.
C12_Witness ==
    /\ pc = "intervalSleep"
    /\ cfg.BatchSize = MaxBatch
    /\ cfg.PollInterval = 3
    /\ fetched = MaxBatch - 1
    /\ slept = 3
    /\ rows # {}

\* C13: a successful iteration leaves backoff at PollInterval, and the first
\* failed iteration after a successful one sleeps exactly PollInterval,
\* however many failed iterations came before that success.
C13_BackoffResetOnSuccess ==
    /\ (fails = 0 /\ pc # "start") => backoff = cfg.PollInterval
    /\ (pc = "backoffSleep" /\ fails = 1) => slept = cfg.PollInterval

\* Base 1 s, cap 8 s: three failures in a row, a success, then a failure
\* whose sleep lasts 1 s.
C13_Witness ==
    /\ pc = "backoffSleep"
    /\ cfg.PollInterval = 1
    /\ cfg.MaxBackoff = 8
    /\ failsBefore = 3
    /\ fails = 1
    /\ slept = 1

\* C14: a fetch call that ends in an error after a network failure, a 429
\* response or a 5xx response, and without its ctx being done, made more than
\* one HTTP attempt.
C14_TransientErrorsRetried ==
    (/\ fetchCall.pc = "done" /\ fetchCall.result = "err" /\ ~cancelled
     /\ fetchCall.attempt > 0
     /\ fetchCall.outs[fetchCall.attempt] \in {"neterr", "s429", "s503"})
        => fetchCall.attempt > 1

\* C15: a fetch call makes at most 3 HTTP attempts, waits 1 s before the
\* second and 2 s before the third; every attempt but the last ended in a
\* network error or a 429 response, an attempt that ended otherwise is the
\* last, and 3 attempts that all ended in network errors or 429 responses
\* make the call return an error and no events.
C15_RetryPolicy ==
    LET a == fetchCall.attempt
        retryable == {"neterr", "s429"}
    IN  /\ a <= 3
        /\ Len(fetchCall.outs) = a
        /\ Len(fetchCall.waits) <= 2
        /\ (a >= 2 \/ (a = 1 /\ fetchCall.pc \in {"do", "flight"})) => fetchCall.waits[1] = 1
        /\ (a >= 3 \/ (a = 2 /\ fetchCall.pc \in {"do", "flight"})) => fetchCall.waits[2] = 2
        /\ fetchCall.pc \in {"do", "flight", "wait", "done"} =>
              Len(fetchCall.waits) =
                  (IF a = 0 THEN 0 ELSE IF fetchCall.pc \in {"do", "flight"} THEN a ELSE a - 1)
        /\ \A i \in 1..(a - 1) : fetchCall.outs[i] \in retryable
        /\ (a > 0 /\ fetchCall.outs[a] \notin retryable) => fetchCall.pc = "done"
        /\ (a = 3 /\ \A i \in 1..3 : fetchCall.outs[i] \in retryable)
              => /\ fetchCall.pc = "done"
                 /\ fetchCall.result = "err"
                 /\ fetchCall.events = <<>>

\* A network error, a wait of 1 s, a 429, a wait of 2 s and a second 429:
\* the call returned an error.
C15_Witness ==
    /\ fetchCall.pc = "done"
    /\ fetchCall.outs = <<"neterr", "s429", "s429">>
    /\ fetchCall.waits = <<1, 2>>
    /\ fetchCall.result = "err"
    /\ ~cancelled

\* C16: a fetch call returns events only if its last response has a status
\* below 300 and a body that is, as a whole, a JSON array of events; a last
\* status of 300 or more makes it return an error and no events, and after
\* an error of the call the poller's iteration fails without a write.
C16_ListOnlyFromWholePayload ==
    [][/\ fetchCall'.pc = "done" =>
            /\ fetchCall'.result = "list"
                  => (fetchCall'.status < 300 /\ fetchCall'.payload = "events")
            /\ (fetchCall'.attempt > 0 /\ fetchCall'.status >= 300)
                  => (fetchCall'.result = "err" /\ fetchCall'.events = <<>>)
       /\ (fetchCall.pc = "done" /\ fetchCall.result = "err" /\ fetchCall'.pc = "idle")
            => (pc' = "backoffSleep" /\ UNCHANGED storeVars)]_vars

\* C17 as stated: a served request whose year is no number or below 2018, or
\* whose page is no number or below 1, got status 400 and no GetPage call;
\* every other served request, with a year that is a number from 2018 on,
\* however large, and a page that is absent or a number from 1 on, got a
\* GetPage call.
C17_NumericParamsAccepted ==
    LET below(s, k) ==
            \/ s[1] = "-"
            \/ LET mag == Magnitude(Digits(s))
               IN  ~mag.over /\ FitsInt4(mag.limbs) /\ Small(mag.limbs) < k
        yBad == apiCall.yearParam # <<>> /\
                    (~Numeric(apiCall.yearParam) \/ below(apiCall.yearParam, 2018))
        pBad == apiCall.pageParam # <<>> /\
                    (~Numeric(apiCall.pageParam) \/ below(apiCall.pageParam, 1))
    IN  apiCall.pc = "done" =>
            IF yBad \/ pBad THEN apiCall.status = 400 /\ apiCall.queries = 0
            ELSE apiCall.status # 400 /\ apiCall.queries = 1

\* C17: a served request whose year is no number, a number outside of the
\* 64-bit int or below 2018, or whose page is no number, a number outside
\* of the 64-bit int or below 1, got status 400 and no GetPage call; every
\* other served request, with a year from 2018 on and a page that is absent
\* or from 1 on, got a GetPage call.
C17_ParamsValidated ==
    LET below(s, k) ==
            \/ s[1] = "-"
            \/ LET mag == Magnitude(Digits(s))
               IN  ~mag.over /\ FitsInt4(mag.limbs) /\ Small(mag.limbs) < k
        tooBig(s) ==
            LET mag == Magnitude(Digits(s))
            IN  s[1] # "-" /\ (mag.over \/ mag.limbs[4] >= SignLimb)
        bad(s, k) == s # <<>> /\ (~Numeric(s) \/ tooBig(s) \/ below(s, k))
    IN  apiCall.pc = "done" =>
            IF bad(apiCall.yearParam, 2018) \/ bad(apiCall.pageParam, 1)
            THEN apiCall.status = 400 /\ apiCall.queries = 0
            ELSE apiCall.status # 400 /\ apiCall.queries = 1

\* A request for the future year 2030 without a page was answered from the
\* store.
C17_Witness ==
    /\ apiCall.pc = "done"
    /\ apiCall.yearParam = <<"2", "0", "3", "0">>
    /\ apiCall.pageParam = <<>>
    /\ apiCall.queries = 1
    /\ apiCall.status = 200

\* C18: no two rows of the table have the same id, so no two tie under
\* (timestamp, id); the rows a successful GetPage call returned are in
\* strictly descending order of timestamp, and of id among equal timestamps;
\* and each returned row has exactly offset + its index - 1 rows of the
\* filtered table ahead of it in that order, which makes the sequence a
\* function of the table and the arguments.
C18_StrictTotalOrder ==
    /\ \A a, b \in rows : a # b => a.id # b.id
    /\ (apiCall.pc = "done" /\ apiCall.status = 200) =>
          /\ \A i, j \in 1..Len(apiCall.rows) :
                i < j =>
                    \/ apiCall.rows[i].timestamp > apiCall.rows[j].timestamp
                    \/ /\ apiCall.rows[i].timestamp = apiCall.rows[j].timestamp
                       /\ apiCall.rows[i].id > apiCall.rows[j].id
          /\ FitsInt4(apiCall.offset) =>
                \A i \in 1..Len(apiCall.rows) :
                    /\ apiCall.rows[i] \in rows
                    /\ apiCall.year.set => apiCall.rows[i].year = Small(apiCall.year.val)
                    /\ Cardinality({x \in rows :
                          /\ apiCall.year.set => x.year = Small(apiCall.year.val)
                          /\ \/ x.timestamp > apiCall.rows[i].timestamp
                             \/ /\ x.timestamp = apiCall.rows[i].timestamp
                                /\ x.id > apiCall.rows[i].id})
                          = Small(apiCall.offset) + i - 1

\* A page that holds two rows of one timestamp, the higher id first, and a
\* row of an earlier timestamp after them.
C18_Witness ==
    /\ apiCall.pc = "done"
    /\ apiCall.status = 200
    /\ \E i, j, k \in 1..Len(apiCall.rows) :
          /\ i < j /\ j < k
          /\ apiCall.rows[i].timestamp = apiCall.rows[j].timestamp
          /\ apiCall.rows[i].id > apiCall.rows[j].id
          /\ apiCall.rows[j].timestamp > apiCall.rows[k].timestamp

\* C19: the year column of every row is the calendar year of the row's
\* timestamp; a successful page of year Y holds only rows whose timestamp
\* lies in year Y, and as many of them as the rows of that year leave for
\* its window; a successful page without a year is taken from the rows of
\* all years.
C19_YearOfTimestamp ==
    /\ \A r \in rows : r.year = YearOf(r.timestamp)
    /\ (apiCall.pc = "done" /\ apiCall.status = 200 /\ FitsInt4(apiCall.offset)) =>
          /\ apiCall.year.set =>
                \A i \in 1..Len(apiCall.rows) :
                    YearOf(apiCall.rows[i].timestamp) = Small(apiCall.year.val)
          /\ Len(apiCall.rows) =
                Max(0, Min(PageSize,
                    Cardinality({r \in rows :
                        apiCall.year.set => YearOf(r.timestamp) = Small(apiCall.year.val)})
                    - Small(apiCall.offset)))

\* C20: a request that passed the validation and whose query neither the
\* database nor ctx failed is answered with the rows at positions
\* (p - 1) * 50 .. p * 50 - 1 of the filtered table in newest-first order,
\* p being the page asked for (1 when absent): at most 50 rows, none when
\* the table ends before the page, and each with exactly (p - 1) * 50 + its
\* index - 1 rows ahead of it.
C20_PageWindow ==
    (apiCall.pc = "done" /\ apiCall.queries = 1 /\ ~apiCall.fault) =>
        LET p == IF apiCall.pageParam = <<>> THEN Word(1)
                 ELSE Magnitude(Digits(apiCall.pageParam)).limbs
            past == ~FitsInt4(p) \/ Small(p) > MaxRows
        IN  /\ apiCall.status = 200
            /\ Len(apiCall.rows) <= PageSize
            /\ past => apiCall.rows = <<>>
            /\ ~past =>
                  /\ Len(apiCall.rows) =
                        Max(0, Min(PageSize,
                            Cardinality({r \in rows :
                                apiCall.year.set => r.year = Small(apiCall.year.val)})
                            - (Small(p) - 1) * PageSize))
                  /\ \A i \in 1..Len(apiCall.rows) :
                        /\ apiCall.rows[i] \in rows
                        /\ Cardinality({x \in rows :
                              /\ apiCall.year.set => x.year = Small(apiCall.year.val)
                              /\ \/ x.timestamp > apiCall.rows[i].timestamp
                                 \/ /\ x.timestamp = apiCall.rows[i].timestamp
                                    /\ x.id > apiCall.rows[i].id})
                              = (Small(p) - 1) * PageSize + i - 1

\* C21: a stop of the process leaves every committed row in the table and
\* commits nothing of an open transaction, and it leaves the restarted poller
\* with no local of the stopped one; in every fetch after a restart the since
\* handed to the client is the greatest timestamp of the committed rows, or
\* GenesisStart when there is no row or that timestamp is earlier.
C21_ResumeFromStore ==
    /\ [][proc'.restarts # proc.restarts =>
            /\ rows' = rows
            /\ pending'[Poller] = {}
            /\ txpc'[Poller] = "idle"
            /\ pc' = "start"
            /\ <<lastTs', wmRead', resp', batch'[Poller]>> = <<ZeroTime, ZeroTime, <<>>, <<>>>>]_vars
    /\ [](  (proc.restarts > 0 /\ pc = "fetch") =>
               LET ts == {r.timestamp : r \in rows}
               IN  IF ts = {} \/ (\A t \in ts : t < cfg.GenesisStart)
                   THEN lastTs = cfg.GenesisStart
                   ELSE lastTs \in ts /\ \A t \in ts : t <= lastTs)

\* The process was stopped while its transaction stood before the commit,
\* and after the restart the fetch starts from the latest committed row.
C21_Witness ==
    /\ proc.restarts > 0
    /\ proc.crashAt = "commit"
    /\ pc = "fetch"
    /\ rows # {}
    /\ lastTs = MaxTs

\* C22: once the signal has fired or the server task has failed, gCtx is
\* done; the poller returns and the server is shut down only under a done
\* gCtx; srv.Shutdown returns within the grace period of 10 s; the process
\* exits only when Run, the server task and the shutdown task have returned;
\* and after the signal or the failure the process exits in the end.
C22_CoordinatedShutdown ==
    /\ []((proc.signal \/ proc.server = "failed") => cancelled)
    /\ []((runResult # "none" \/ proc.shutdown # "waiting" \/ proc.server = "closed")
              => cancelled)
    /\ [](proc.shutdown \in {"ok", "timeout"} => proc.took <= 10)
    /\ [](proc.exit # "none" =>
              /\ runResult = "nil"
              /\ proc.server \in {"failed", "closed"}
              /\ proc.shutdown \in {"ok", "timeout"})
    /\ ((proc.signal \/ proc.server = "failed") ~> proc.exit # "none")

\* The server task failed while the poller was in its write: the poller
\* returned, the server was shut down, and the process exited with status 1.
C22_Witness ==
    /\ proc.server = "failed"
    /\ ~proc.signal
    /\ cancelAt = "insert"
    /\ runResult = "nil"
    /\ proc.shutdown = "ok"
    /\ proc.exit = "1"


\* C23: no step of a BulkInsert removes or changes a persisted row: every row
\* stays in the table, and it stays the only row with its tzkt_id, so its
\* timestamp, amount, delegator, level and year are what they were, whatever
\* values a later batch brings for that tzkt_id.
C23_AppendOnly ==
    [][\A r \in rows :
          /\ r \in rows'
          /\ \A x \in rows' : x.tzkt_id = r.tzkt_id => x = r]_vars

\* A batch that brought identifier 1 with the latest timestamp and a new
\* identifier was committed, and identifier 1 is stored with the first
\* timestamp.
C23_Witness ==
    /\ txpc["c1"] = "done" /\ result["c1"] = "ok" /\ repeat["c1"] = "first"
    /\ Len(batch["c1"]) = 2
    /\ batch["c1"][1].TzktID = 1 /\ batch["c1"][1].Timestamp = MaxTs
    /\ batch["c1"][2].TzktID = 2
    /\ \E r \in rows : r.tzkt_id = 1 /\ r.timestamp = 1
    /\ Cardinality(rows) = 2


\* C24: the rows a page read returns are the matching rows committed when it
\* ran and no row of an open transaction; the committed rows change only by
\* all rows of one transaction at its commit, and a call that fails leaves
\* them as they were, so no read sees a part of a batch or a row of a batch
\* that was rolled back.
C24_ReadCommitted ==
    [][/\ (apiCall.pc = "pending" /\ apiCall'.pc = "done" /\ apiCall'.status = 200) =>
            LET seen == {apiCall'.rows[i] : i \in DOMAIN apiCall'.rows}
            IN  /\ seen = Matching(rows, apiCall'.year)
                /\ seen \cap UNION {pending[w] : w \in Callers} = {}
       /\ rows' # rows =>
            \E w \in Callers :
                /\ txpc[w] = "commit" /\ result'[w] = "ok"
                /\ rows' = rows \cup pending[w]
       /\ \A w \in Callers :
            (result[w] = "none" /\ result'[w] \notin {"none", "ok"}) => rows' = rows]_vars

\* A read returned a row that was inserted after a row of a transaction that
\* is still open: the read ran while that transaction held its row.
C24_Witness ==
    /\ apiCall.pc = "done" /\ apiCall.status = 200
    /\ \E w \in Callers :
          /\ txpc[w] = "commit"
          /\ \E p \in pending[w] : \E i \in DOMAIN apiCall.rows : apiCall.rows[i].id > p.id


\* C25: once ctx is done a fetch call sends no further request, and a call
\* that ctx finds in the rate limiter's wait, in a retry sleep or with a
\* request in flight does nothing but return an error, at once or, after the
\* request in flight has failed, from the retry sleep that follows.
C25_CancellationHonoured ==
    [][cancelled =>
          /\ fetchCall'.sent <= fetchCall.sent
          /\ (fetchCall.pc \in {"limiter", "wait", "flight"} /\ fetchCall' # fetchCall) =>
                \/ fetchCall'.pc = "done" /\ fetchCall'.result = "err" /\ fetchCall'.events = <<>>
                \/ fetchCall.pc = "flight" /\ fetchCall'.pc = "wait"]_vars

\* After a 429 and the wait of 1 s a second request was sent; ctx became done
\* while it was in flight or in the sleep after its failure, and the call
\* returned an error after 2 of its 3 attempts.
C25_Witness ==
    /\ cancelled
    /\ fetchCall.pc = "done" /\ fetchCall.result = "err"
    /\ fetchCall.outs = <<"s429", "neterr">>
    /\ fetchCall.sent = 2

\* C26: a fetch call has sent no more requests than it got tokens from the
\* rate limiter.
C26_RequestsWithinTokens ==
    fetchCall.sent <= fetchCall.tokens


\* C27: the poller has a BulkInsert call running only while syncOnce stands
\* at its write and a FetchDelegations call running only while it stands at
\* its fetch, so never both and neither during a sleep; syncOnce leaves the
\* write only when BulkInsert has returned, with success or with an error;
\* and a watermark read is made only with no write and no fetch running.
C27_Sequential ==
    /\ [](txpc[Poller] # "idle" => pc = "insert")
    /\ [](fetchCall.pc # "idle" => pc = "fetch")
    /\ [][(pc = "insert" /\ pc' # "insert") =>
              (txpc[Poller] = "done" /\ result[Poller] \in {"ok", "err", "dup"}
               /\ txpc'[Poller] = "idle")]_vars
    /\ [][(pc = "sync" /\ pc' = "fetch") =>
              (txpc[Poller] = "idle" /\ fetchCall.pc = "idle" /\ pending[Poller] = {})]_vars

\* A later iteration has read the watermark of the row the write before it
\* committed and has a request in flight, with no write running.
C27_Witness ==
    /\ pc = "fetch"
    /\ wmRead = MaxTs
    /\ fetchCall.pc = "flight"
    /\ txpc[Poller] = "idle"
    /\ rows # {}


\* C28: a BulkInsert with an empty batch has returned success as soon as it
\* is called, without BeginTx and with the table and its sequence as they
\* were; and an iteration whose fetched events were all discarded ends as a
\* success (no error, no backoff sleep, count 0) with nothing written.
C28_EmptyBatch ==
    [][/\ (pc = "fetch" /\ pc' = "insert" /\ batch'[Poller] = <<>>) =>
            /\ txpc'[Poller] = "done" /\ result'[Poller] = "ok"
            /\ pending'[Poller] = {}
            /\ rows' = rows /\ nextId' = nextId
       /\ (pc = "insert" /\ pc' # "insert"
           /\ resp # <<>> /\ \A i \in DOMAIN resp : resp[i].Address = "") =>
            /\ batch[Poller] = <<>>
            /\ n' = 0 /\ lastErr' = "none" /\ fails' = 0
            /\ pc' = "intervalSleep"
            /\ rows' = rows /\ nextId' = nextId]_vars

\* A full batch was fetched and every event of it discarded: the iteration
\* succeeded with count 0, the table is empty and no sequence value was used.
C28_Witness ==
    /\ pc = "intervalSleep"
    /\ fetched = MaxBatch
    /\ n = 0
    /\ lastErr = "none"
    /\ rows = {}
    /\ nextId = 1


\* C29: with a fixed upstream that answers every fetch and with no failure,
\* every upstream event that has a sender address and a timestamp after
\* GenesisStart is stored in the end, whatever the batch size and also when
\* several events share a timestamp.
C29_EveryEventPersisted ==
    <>[](\A d \in upstream :
            (d.Address # "" /\ d.Timestamp > cfg.GenesisStart)
                => \E r \in rows : r.tzkt_id = d.ID)

\* C30: an iteration that fetched at least one event and succeeded is
\* followed by an iteration whose since, the clamped watermark of the table
\* it leaves, is later than the since it used, also when events of the fetch
\* were discarded for their empty sender address.
C30_SinceAdvances ==
    [][(pc = "insert" /\ pc' # "insert" /\ result[Poller] = "ok" /\ fetched > 0) =>
          ClampSince(GetLastSeen(rows').ts, cfg.GenesisStart) > lastTs]_vars


\* C31: no step, a committed or failed write, a failed read or fetch and a
\* restart of the process included, lowers the maximum timestamp or the
\* maximum level GetLastSeen returns, nor the since derived from it; and the
\* since a fetch uses is not later than the one the table gives now, so the
\* since of successive fetches never decreases.
C31_WatermarkMonotone ==
    /\ [][/\ GetLastSeen(rows').ts >= GetLastSeen(rows).ts
          /\ GetLastSeen(rows').lvl >= GetLastSeen(rows).lvl
          /\ ClampSince(GetLastSeen(rows').ts, cfg'.GenesisStart)
                >= ClampSince(GetLastSeen(rows).ts, cfg.GenesisStart)]_vars
    /\ [](pc = "fetch" => lastTs <= ClampSince(GetLastSeen(rows).ts, cfg.GenesisStart))

\* After a restart and a failed iteration the poller fetches from the latest
\* timestamp, which an earlier row carries: the row written after it has a
\* lower timestamp.
C31_Witness ==
    /\ proc.restarts > 0
    /\ pc = "fetch"
    /\ lastTs = MaxTs
    /\ failsBefore > 0
    /\ \E r1 \in rows : \E r2 \in rows :
          r1.id < r2.id /\ r1.timestamp = MaxTs /\ r2.timestamp < MaxTs


C33_PagesConsistent ==
    (apiCall.pc = "done" /\ apiCall.status = 200 /\ apiCall.prevAt > 0) =>
        LET page1 == {apiCall.prev[i] : i \in DOMAIN apiCall.prev}
            page2 == {apiCall.rows[i] : i \in DOMAIN apiCall.rows}
        IN  /\ page1 \cap page2 = {}
            /\ \A r \in rows :
                  (r.id < apiCall.prevAt /\ r \notin page1 /\ r \notin page2)
                      => \A x \in page2 : Before(x, r)


\* C34: for every request whose parameters passed the validation, the
\* product (page - 1) * 50 neither carries out of the 64 bits of an int nor
\* reaches the sign bit, the offset handed to GetPage is that product and is
\* not negative, and the request ends in an internal error only when the
\* query failed for another reason than the offset.
C34_OffsetExact ==
    (apiCall.pc = "done" /\ apiCall.queries = 1) =>
        LET p == IF apiCall.pageParam = <<>> THEN Word(1)
                 ELSE Magnitude(Digits(apiCall.pageParam)).limbs
            product == MulAdd(Add(p, Neg(Word(1))), PageSize, 0)
        IN  /\ product.carry = 0
            /\ ~IsNeg(product.limbs)
            /\ apiCall.offset = product.limbs
            /\ ~IsNeg(apiCall.offset)
            /\ apiCall.status = 500 =>
                  (apiCall.fault \/ (apiCall.year.set /\ ~FitsInt4(apiCall.year.val)))

====
